---- MODULE Spec2Model ----
(***************************************************************************)
(* Merge-sorted combination of two key-sorted tables, as implemented in    *)
(* crates/polars-ops/src/frame/join/merge_sorted.rs.                       *)
(*                                                                         *)
(* Two specifications:                                                     *)
(*   SpecInd  applies get_merge_indicator to two key sequences;            *)
(*   Spec     applies _merge_sorted_dfs to two tables and their keys.      *)
(***************************************************************************)
EXTENDS Integers, Sequences, FiniteSets, TLC

VARIABLES a, b, out, left, right, left_s, right_s, check_schema, result

vars == <<a, b, out, left, right, left_s, right_s, check_schema, result>>

indVars == <<a, b, out>>

dfsVars == <<left, right, left_s, right_s, check_schema, result>>

----------------------------------------------------------------------------
(* Bounds of the model. *)

\* longest key sequence drawn for either side
MaxLen == 3

\* key values are drawn from 0..MaxKey
MaxKey == 2

\* most rows of either table given to _merge_sorted_dfs
MaxRows == 2

\* the keys of those tables are drawn from 0..MaxCode
MaxCode == 1

----------------------------------------------------------------------------
(* Generic helpers. *)

SeqsUpTo(S, n) == UNION {[1..k -> S] : k \in 0..n}

Ascending(s) == \A i \in 1..Len(s) : \A j \in i..Len(s) : s[i] <= s[j]

Repeat(x, n) == [i \in 1..n |-> x]

CountOf(s, x) == Cardinality({i \in 1..Len(s) : s[i] = x})

----------------------------------------------------------------------------
(* get_merge_indicator: left = TRUE, right = FALSE. *)

A_INDICATOR == TRUE

B_INDICATOR == FALSE

\* T::default() for the integer keys of the model
Default == 0

IndOk(v) == [tag |-> "Ok", val |-> v]

IndPanic == [tag |-> "Panic", val |-> <<>>]

\* the comparison without the tie: equal keys go to the right side first
TakeLeftStrict(x, current_b) == x < current_b

\* `if a <= current_b` : the left head is taken while it is not greater

TakeLeft(x, current_b) == x <= current_b

\* `if b >= a` : the inner loop stops at the first right value not below a
StopRight(y, x) == y >= x

\* the early return for an empty left side: `vec![true; b_len]`
EmptyLeft(b_len) == Repeat(TRUE, b_len)

\* the early return for an empty right side: `vec![false; a_len]`
EmptyRight(a_len) == Repeat(FALSE, a_len)

\* the code after the for loop: the pending right head, then the rest of b
AfterLoop(sa, sb, bi, current_a, current_b, o) ==
    LET o1 == IF current_a < current_b THEN Append(o, B_INDICATOR) ELSE o
        o2 == IF o1[Len(o1)] = A_INDICATOR THEN Append(o1, B_INDICATOR) ELSE o1
        o3 == o2 \o Repeat(B_INDICATOR, Len(sb) - bi + 1)
    IN  IF Len(o3) = Len(sb) + Len(sa) THEN IndOk(o3) ELSE IndPanic

RECURSIVE ForLoop(_, _, _, _, _, _, _)
RECURSIVE InnerLoop(_, _, _, _, _, _, _)

\* `loop { if let Some(b) = b_iter.next() ... }` ; x is the a of the for loop,
\* ai and bi index the next element each iterator yields
InnerLoop(sa, sb, ai, bi, x, current_b, o) ==
    IF bi <= Len(sb)
    THEN LET y == sb[bi]
         IN  IF StopRight(y, x)
             THEN ForLoop(sa, sb, ai, bi + 1, x, y, Append(o, A_INDICATOR))
             ELSE InnerLoop(sa, sb, ai, bi + 1, x, y, Append(o, B_INDICATOR))
    ELSE LET remaining == (Len(sa) + Len(sb)) - Len(o)
         IN  IndOk(o \o Repeat(A_INDICATOR, remaining))

\* `for a in &mut a_iter { ... }`
ForLoop(sa, sb, ai, bi, current_a, current_b, o) ==
    IF ai > Len(sa)
    THEN AfterLoop(sa, sb, bi, current_a, current_b, o)
    ELSE LET x == sa[ai]
         IN  IF TakeLeft(x, current_b)
             THEN ForLoop(sa, sb, ai + 1, bi, x, current_b, Append(o, A_INDICATOR))
             ELSE InnerLoop(sa, sb, ai + 1, bi, x, current_b, Append(o, B_INDICATOR))

get_merge_indicator(sa, sb) ==
    LET a_len == Len(sa)
        b_len == Len(sb)
    IN  IF a_len = 0 THEN IndOk(EmptyLeft(b_len))
        ELSE IF b_len = 0 THEN IndOk(EmptyRight(a_len))
        ELSE ForLoop(sa, sb, 1, 2, Default, sb[1], <<>>)

----------------------------------------------------------------------------
(* The inputs of test_merge_sorted. *)

TestA1 == <<1, 2, 4, 6, 9>>

TestB1 == <<2, 3, 4, 5, 10>>

TestA2 == <<5, 6, 7, 10>>

TestB2 == <<1, 2, 5>>

TestPairs == {<<TestA1, TestB1>>, <<TestB1, TestA1>>, <<TestA2, TestB2>>, <<TestB2, TestA2>>}

KeySeqs == SeqsUpTo(0..MaxKey, MaxLen)

NotCalled == [tag |-> "NotCalled", val |-> <<>>]

----------------------------------------------------------------------------
(* Data model: dictionaries, dtypes, series, tables. *)

\* RevMapping::Local(_, hash): the hash identifies the content
LocalRev(h) == [kind |-> "Local", id |-> h, cats |-> {h}]

\* RevMapping::Global(map, _, id): id is the string cache the codes come from
GlobalRev(id, cats) == [kind |-> "Global", id |-> id, cats |-> cats]

\* the revmap slot of a dtype that is not categorical
NoRev == [kind |-> "None", id |-> 0, cats |-> {}]

Int64 == [kind |-> "Int64", rev |-> NoRev, ord |-> "Physical", fields |-> <<>>]

UInt32 == [kind |-> "UInt32", rev |-> NoRev, ord |-> "Physical", fields |-> <<>>]

\* DataType::Categorical(Some(rev), ord)
Categorical(rev, ord) == [kind |-> "Categorical", rev |-> rev, ord |-> ord, fields |-> <<>>]

\* DataType::Struct(fields), fields a sequence of [name, dtype]
StructType(fields) == [kind |-> "Struct", rev |-> NoRev, ord |-> "Physical", fields |-> fields]

Field(name, dtype) == [name |-> name, dtype |-> dtype]

\* a Series: name, dtype, values with their validity, and for a struct its fields
Series(name, dtype, vals, valid, fields) ==
    [name |-> name, dtype |-> dtype, vals |-> vals, valid |-> valid, fields |-> fields]

SLen(s) == Len(s.valid)

is_empty(s) == SLen(s) = 0

null_count(s) == CountOf(s.valid, FALSE)

is_categorical(dtype) == dtype.kind = "Categorical"

\* a DataFrame: its height and its columns in order
DataFrame(height, columns) == [height |-> height, columns |-> columns]

NoFrame == DataFrame(0, <<>>)

Min(x, y) == IF x <= y THEN x ELSE y

RECURSIVE DtypeEq(_, _)
\* DataType's equality: categoricals compare equal whatever their dictionary
DtypeEq(d1, d2) ==
    /\ d1.kind = d2.kind
    /\ d1.kind = "Struct" =>
          /\ Len(d1.fields) = Len(d2.fields)
          /\ \A i \in 1..Len(d1.fields) :
                /\ d1.fields[i].name = d2.fields[i].name
                /\ DtypeEq(d1.fields[i].dtype, d2.fields[i].dtype)

\* DataFrame::schema_equal: same column names and dtypes in the same order
schema_equal(l, r) ==
    /\ Len(l.columns) = Len(r.columns)
    /\ \A i \in 1..Len(l.columns) :
          /\ l.columns[i].name = r.columns[i].name
          /\ DtypeEq(l.columns[i].dtype, r.columns[i].dtype)

\* RevMapping::same_src
same_src(l, r) == l.kind = r.kind /\ l.kind \in {"Local", "Global"} /\ l.id = r.id

RECURSIVE PhysicalType(_)
PhysicalType(dtype) ==
    IF dtype.kind = "Categorical" THEN UInt32
    ELSE IF dtype.kind = "Struct"
    THEN StructType([i \in 1..Len(dtype.fields) |->
             Field(dtype.fields[i].name, PhysicalType(dtype.fields[i].dtype))])
    ELSE dtype

RECURSIVE to_physical_repr(_)
\* a categorical becomes its u32 codes, a struct the struct of its physical fields
to_physical_repr(s) ==
    Series(s.name, PhysicalType(s.dtype), s.vals, s.valid,
           [i \in 1..Len(s.fields) |-> to_physical_repr(s.fields[i])])

RECURSIVE from_physical_unchecked(_, _)
\* re-tags a physical series with a logical dtype of the same physical shape
from_physical_unchecked(s, dtype) ==
    Series(s.name, dtype, s.vals, s.valid,
           [i \in 1..Min(Len(s.fields), Len(dtype.fields)) |->
               from_physical_unchecked(s.fields[i], dtype.fields[i].dtype)])

rename(s, name) == [s EXCEPT !.name = name]

\* the string a code decodes to, as its rank in lexical order
CatStr(code) == MaxCode - code

\* CategoricalChunked::iter_str
iter_str(s) == [i \in 1..SLen(s) |-> CatStr(s.vals[i])]

uses_lexical_ordering(s) == s.dtype.ord = "Lexical"

----------------------------------------------------------------------------
(* check_and_union_revmaps *)

RevOk(rev) == [tag |-> "Ok", rev |-> rev, err |-> ""]

RevErr(err) == [tag |-> "Err", rev |-> NoRev, err |-> err]

RevPanic == [tag |-> "Panic", rev |-> NoRev, err |-> "unreachable"]

ErrIncompatible == "cannot merge-sort incompatible categoricals"

\* GlobalRevMapMerger::new(lhs).merge_map(rhs).finish(): the union of both
GlobalRevMapMerger(l, r) == GlobalRev(l.id, l.cats \cup r.cats)

\* the reconciler without the comparison of the Local hashes
UnionUncheckedLocals(lhs_revmap, rhs_revmap) ==
    IF lhs_revmap.kind = "Local" /\ rhs_revmap.kind = "Local"
    THEN RevOk(NoRev)
    ELSE IF lhs_revmap.kind = "Global" /\ rhs_revmap.kind = "Global"
    THEN IF lhs_revmap.id = rhs_revmap.id
         THEN RevOk(GlobalRevMapMerger(lhs_revmap, rhs_revmap))
         ELSE RevErr(ErrIncompatible)
    ELSE RevPanic

\* Ok(None) is RevOk(NoRev); Ok(Some(m)) is RevOk(m)
check_and_union_revmaps(lhs_revmap, rhs_revmap) ==
    IF lhs_revmap.kind = "Local" /\ rhs_revmap.kind = "Local"
    THEN IF lhs_revmap.id = rhs_revmap.id THEN RevOk(NoRev) ELSE RevErr(ErrIncompatible)
    ELSE IF lhs_revmap.kind = "Global" /\ rhs_revmap.kind = "Global"
    THEN IF lhs_revmap.id = rhs_revmap.id
         THEN RevOk(GlobalRevMapMerger(lhs_revmap, rhs_revmap))
         ELSE RevErr(ErrIncompatible)
    ELSE RevPanic

----------------------------------------------------------------------------
(* merge_ca and merge_series *)

\* the outcome of merging one pair of series
SerOk(s) == [tag |-> "Ok", s |-> s, err |-> ""]

NoSeries == Series("", Int64, <<>>, <<>>, <<>>)

SerErr(err) == [tag |-> "Err", s |-> NoSeries, err |-> err]

SerPanic == [tag |-> "Panic", s |-> NoSeries, err |-> "panic"]

\* the iterator yielded fewer items than the length it was trusted to have
SerUB == [tag |-> "UB", s |-> NoSeries, err |-> "trusted length"]

ErrStructNulls == "merge sorted with structs with outer nulls not yet supported"

RECURSIVE Walk(_, _, _, _, _, _, _, _)
\* `merge_indicator.iter().map(|a_indicator| if *a_indicator { a.next().unwrap() }
\*  else { b.next().unwrap() })`, collected: i and j are the next items of a and b
Walk(sa, sb, ind, k, i, j, vals, valid) ==
    IF k > Len(ind) THEN [tag |-> "Ok", vals |-> vals, valid |-> valid]
    ELSE IF ind[k]
    THEN IF i > SLen(sa) THEN [tag |-> "Panic", vals |-> <<>>, valid |-> <<>>]
         ELSE Walk(sa, sb, ind, k + 1, i + 1, j,
                   Append(vals, sa.vals[i]), Append(valid, sa.valid[i]))
    ELSE IF j > SLen(sb) THEN [tag |-> "Panic", vals |-> <<>>, valid |-> <<>>]
         ELSE Walk(sa, sb, ind, k + 1, i, j + 1,
                   Append(vals, sb.vals[j]), Append(valid, sb.valid[j]))

\* the walk with the two sides exchanged
WalkSwapped(sa, sb, ind) == Walk(sb, sa, ind, 1, 1, 1, <<>>, <<>>)

\* the walk of merge_ca over its indicator

WalkIndicator(sa, sb, ind) == Walk(sa, sb, ind, 1, 1, 1, <<>>, <<>>)

merge_ca(sa, sb, merge_indicator) ==
    LET total_len == SLen(sa) + SLen(sb)
        w == WalkIndicator(sa, sb, merge_indicator)
    IN  IF w.tag = "Panic" THEN SerPanic
        ELSE IF Len(w.vals) # total_len THEN SerUB
        ELSE SerOk(Series("", sa.dtype, w.vals, w.valid, <<>>))

\* the struct branch without its check
StructNullsIgnored(lhs, rhs) == FALSE

\* the struct branch's check on outer nulls: line 126

StructHasOuterNulls(lhs, rhs) == null_count(lhs) + null_count(rhs) # 0

RECURSIVE merge_series(_, _, _)
RECURSIVE MergeFields(_, _, _, _, _)

\* `lhs.fields_as_series().iter().zip(rhs.fields_as_series()).map(...)
\*  .collect::<PolarsResult<Vec<_>>>()?` : stops at the first field that fails
MergeFields(lfs, rfs, ind, i, acc) ==
    IF i > Min(Len(lfs), Len(rfs)) THEN [tag |-> "Ok", fs |-> acc, err |-> ""]
    ELSE LET m == merge_series(lfs[i], rfs[i], ind)
         IN  IF m.tag # "Ok" THEN [tag |-> m.tag, fs |-> <<>>, err |-> m.err]
             ELSE MergeFields(lfs, rfs, ind, i + 1, Append(acc, rename(m.s, lfs[i].name)))

merge_series(lhs, rhs, merge_indicator) ==
    IF lhs.dtype.kind = "Struct"
    THEN IF rhs.dtype.kind # "Struct" THEN SerPanic
         ELSE IF StructHasOuterNulls(lhs, rhs) THEN SerErr(ErrStructNulls)
         ELSE LET nf == MergeFields(lhs.fields, rhs.fields, merge_indicator, 1, <<>>)
              IN  IF nf.tag # "Ok" THEN [tag |-> nf.tag, s |-> NoSeries, err |-> nf.err]
                  ELSE IF Len(nf.fs) = 0 THEN SerPanic
                  ELSE SerOk(Series("",
                          StructType([i \in 1..Len(nf.fs) |->
                                        Field(nf.fs[i].name, nf.fs[i].dtype)]),
                          <<>>, Repeat(TRUE, SLen(nf.fs[1])), nf.fs))
    ELSE IF rhs.dtype.kind # lhs.dtype.kind THEN SerPanic
    ELSE merge_ca(lhs, rhs, merge_indicator)

\* the key sequence the indicator is computed from
KeyView(lhs, s) ==
    IF is_categorical(lhs.dtype) /\ uses_lexical_ordering(lhs)
    THEN iter_str(s)
    ELSE to_physical_repr(s).vals

series_to_merge_indicator(lhs, rhs) ==
    get_merge_indicator(KeyView(lhs, lhs), KeyView(lhs, rhs))

----------------------------------------------------------------------------
(* _merge_sorted_dfs *)

ErrSchema == "schema mismatch"

ErrKeyDtype == "merge-sort datatype mismatch"

ErrKeyCategories == "can only merge-sort categoricals with the same categories"

\* the merge indicator of a call: whether one was computed, and its entries
NoIndicator == [computed |-> FALSE, val |-> <<>>]

Indicator(v) == [computed |-> TRUE, val |-> v]

\* The outcome of a call. tag: Ok (df is the table returned), Err (err is the
\* error returned), Panic, UB.  The other fields record the work the call did:
\* the indicator it computed, the dictionaries it created (in column order) and
\* the number of column pairs it handed to merge_series.
Outcome(tag, df, err, ind, created, merged) ==
    [tag |-> tag, df |-> df, err |-> err, ind |-> ind, created |-> created, merged |-> merged]

Failed(err) == Outcome("Err", NoFrame, err, NoIndicator, <<>>, 0)

Returned(df) == Outcome("Ok", df, "", NoIndicator, <<>>, 0)

\* the dtype the merged column is given: lines 79-90
DtypeOut(lhs, rhs, r) == IF r.rev = NoRev THEN lhs.dtype ELSE Categorical(r.rev, lhs.dtype.ord)

\* the merged column named after the right input
NameOutRight(lhs, rhs) == rhs.name

\* the name the merged column is given: line 93

NameOut(lhs, rhs) == lhs.name

\* the closure mapped over the zipped columns: lines 69-95
MergeColumn(lhs, rhs, merge_indicator) ==
    LET lhs_phys == to_physical_repr(lhs)
        rhs_phys == to_physical_repr(rhs)
        m == merge_series(lhs_phys, rhs_phys, merge_indicator)
        cats == is_categorical(lhs.dtype) /\ is_categorical(rhs.dtype)
        r == IF cats THEN check_and_union_revmaps(lhs.dtype.rev, rhs.dtype.rev) ELSE RevOk(NoRev)
    IN  IF m.tag # "Ok" THEN [tag |-> m.tag, s |-> NoSeries, err |-> m.err, created |-> <<>>]
        ELSE IF r.tag # "Ok" THEN [tag |-> r.tag, s |-> NoSeries, err |-> r.err, created |-> <<>>]
        ELSE [tag |-> "Ok",
              s |-> rename(from_physical_unchecked(m.s, DtypeOut(lhs, rhs, r)), NameOut(lhs, rhs)),
              err |-> "",
              created |-> IF r.rev = NoRev THEN <<>> ELSE <<r.rev>>]

\* the number of column pairs `left.get_columns().iter().zip(right.get_columns())` yields
ZipLen(l, r) == Min(Len(l.columns), Len(r.columns))

RECURSIVE MergeColumns(_, _, _, _, _, _)
\* `.map(...).collect::<PolarsResult<_>>()?` : column pairs in order, stopping at
\* the first one that fails
MergeColumns(l, r, ind, i, cols, created) ==
    IF i > ZipLen(l, r)
    THEN Outcome("Ok", DataFrame(l.height + r.height, cols), "", Indicator(ind), created, i - 1)
    ELSE LET c == MergeColumn(l.columns[i], r.columns[i], ind)
         IN  IF c.tag # "Ok"
             THEN Outcome(c.tag, NoFrame, c.err, Indicator(ind), created, i)
             ELSE MergeColumns(l, r, ind, i + 1, Append(cols, c.s), created \o c.created)

\* lines 64-98: the merge proper, both keys being non-empty
MergeProper(l, r, ls, rs) ==
    LET mi == series_to_merge_indicator(ls, rs)
    IN  IF mi.tag # "Ok" THEN Outcome("Panic", NoFrame, "assert", NoIndicator, <<>>, 0)
        ELSE MergeColumns(l, r, mi.val, 1, <<>>, <<>>)

\* the empty-side return placed before the checks
ShortCircuitFirst(l, r, ls, rs, cs) ==
    IF is_empty(rs) THEN Returned(l)
    ELSE IF is_empty(ls) THEN Returned(r)
    ELSE IF cs /\ ~schema_equal(l, r) THEN Failed(ErrSchema)
    ELSE IF ~DtypeEq(ls.dtype, rs.dtype) THEN Failed(ErrKeyDtype)
    ELSE IF is_categorical(ls.dtype) /\ ~same_src(ls.dtype.rev, rs.dtype.rev)
    THEN Failed(ErrKeyCategories)
    ELSE MergeProper(l, r, ls, rs)

\* the two empty tests in the other order
LeftEmptyFirst(l, r, ls, rs, cs) ==
    IF cs /\ ~schema_equal(l, r) THEN Failed(ErrSchema)
    ELSE IF ~DtypeEq(ls.dtype, rs.dtype) THEN Failed(ErrKeyDtype)
    ELSE IF is_categorical(ls.dtype) /\ ~same_src(ls.dtype.rev, rs.dtype.rev)
    THEN Failed(ErrKeyCategories)
    ELSE IF is_empty(ls) THEN Returned(r)
    ELSE IF is_empty(rs) THEN Returned(l)
    ELSE MergeProper(l, r, ls, rs)

merge_sorted_dfs(l, r, ls, rs, cs) ==
    IF cs /\ ~schema_equal(l, r) THEN Failed(ErrSchema)
    ELSE IF ~DtypeEq(ls.dtype, rs.dtype) THEN Failed(ErrKeyDtype)
    ELSE IF is_categorical(ls.dtype) /\ ~same_src(ls.dtype.rev, rs.dtype.rev)
    THEN Failed(ErrKeyCategories)
    ELSE IF is_empty(rs) THEN Returned(l)
    ELSE IF is_empty(ls) THEN Returned(r)
    ELSE MergeProper(l, r, ls, rs)

\* what a build may do once an iterator's trusted length was wrong
Outcomes(o, l, r) ==
    IF o.tag = "UB"
    THEN {[o EXCEPT !.tag = "Panic"],
          [o EXCEPT !.tag = "Ok", !.df = DataFrame(l.height + r.height, <<>>)]}
    ELSE {o}

----------------------------------------------------------------------------
(* The tables and keys the calls are made with. *)

AscSeqs(S, n) == {q \in SeqsUpTo(S, n) : Ascending(q)}

AllValid(n) == Repeat(TRUE, n)

FirstNull(n) == [i \in 1..n |-> i # 1]

\* the value of row i of column c of a table: every cell of a call differs
Token(side, c, i) == (IF side = "L" THEN 100 ELSE 200) + 10 * c + i

Tokens(side, c, n) == [i \in 1..n |-> Token(side, c, i)]

\* two dictionaries of the same string cache with overlapping entries
G1(side) == IF side = "L" THEN GlobalRev(1, {0, 1}) ELSE GlobalRev(1, {1, 2})

G2 == GlobalRev(2, {0})

KeyTypes(side) ==
    {Int64, Categorical(LocalRev(1), "Lexical"), Categorical(LocalRev(2), "Physical"),
     Categorical(G1(side), "Physical"), Categorical(G2, "Physical")}

\* the codes whose compared view (KeyView) is the ascending sequence kv
KeyCodes(kv, lhs_dtype) ==
    IF is_categorical(lhs_dtype) /\ lhs_dtype.ord = "Lexical"
    THEN [i \in 1..Len(kv) |-> MaxCode - kv[i]]
    ELSE kv

KeySeries(dtype, codes) == Series("k", dtype, codes, AllValid(Len(codes)), <<>>)

IntCol(name, side, c, n, valid) == Series(name, Int64, Tokens(side, c, n), valid, <<>>)

CatCol(name, rev, side, c, n) ==
    Series(name, Categorical(rev, "Physical"), Tokens(side, c, n), AllValid(n), <<>>)

StructCol(name, side, c, n, valid) ==
    Series(name, StructType(<<Field("x", Int64)>>), <<>>, valid,
           <<IntCol("x", side, c + 2, n, AllValid(n))>>)

NestedCol(name, side, c, n, valid, inner) ==
    Series(name,
           StructType(<<Field("x", Int64), Field("s", StructType(<<Field("x", Int64)>>))>>),
           <<>>, valid,
           <<IntCol("x", side, c + 2, n, AllValid(n)), StructCol("s", side, c + 4, n, inner)>>)

MkCol(t, name, side, c, n, key) ==
    CASE t = "Key" -> rename(key, name)
      [] t = "Int" -> IntCol(name, side, c, n, AllValid(n))
      [] t = "IntNull" -> IntCol(name, side, c, n, FirstNull(n))
      [] t = "CatL1" -> CatCol(name, LocalRev(1), side, c, n)
      [] t = "CatL2" -> CatCol(name, LocalRev(2), side, c, n)
      [] t = "CatG1" -> CatCol(name, G1(side), side, c, n)
      [] t = "CatG2" -> CatCol(name, G2, side, c, n)
      [] t = "Struct" -> StructCol(name, side, c, n, AllValid(n))
      [] t = "StructNull" -> StructCol(name, side, c, n, FirstNull(n))
      [] t = "Nested" -> NestedCol(name, side, c, n, AllValid(n), AllValid(n))
      [] t = "NestedOuter" -> NestedCol(name, side, c, n, FirstNull(n), AllValid(n))
      [] t = "NestedInner" -> NestedCol(name, side, c, n, AllValid(n), FirstNull(n))

ColName(c, renamed) == IF renamed THEN <<"x1", "x2">>[c] ELSE <<"c1", "c2">>[c]

\* a table of as many rows as its key has, its columns built from templates
MkTable(ts, renamed, side, key) ==
    DataFrame(SLen(key),
              [c \in 1..Len(ts) |-> MkCol(ts[c], ColName(c, renamed), side, c, SLen(key), key)])

OneCol ==
    {<<t>> : t \in {"Int", "IntNull", "CatL1", "CatL2", "CatG1", "CatG2",
                    "Struct", "StructNull", "Nested", "NestedOuter", "NestedInner"}}

TwoCols ==
    {<<t1, t2>> : t1 \in {"Int", "CatL1", "CatG1", "Struct", "StructNull"},
                  t2 \in {"Int", "CatL2", "CatG1", "StructNull"}}

LeftShapes == {<<ts, FALSE>> : ts \in OneCol \cup TwoCols}

RightShapes == LeftShapes \cup {<<ts, TRUE>> : ts \in {<<"Int">>, <<"CatG1">>, <<"Int", "Int">>}}

\* the table pairs used with every key: the key column with a nullable column,
\* alone under another name, and with a struct column
KeyShapes ==
    {<<<<"Key", "IntNull">>, <<"Key", "IntNull">>, FALSE>>,
     <<<<"Key">>, <<"Key">>, TRUE>>,
     <<<<"Key", "StructNull">>, <<"Key", "Struct">>, FALSE>>}

\* the ascending key of n rows used with every table shape
PlainKey(n) == KeySeries(Int64, [i \in 1..n |-> Min(i - 1, MaxCode)])

Call(cs, ls, rs, lshape, rshape) ==
    [cs |-> cs, ls |-> ls, rs |-> rs,
     l |-> MkTable(lshape[1], lshape[2], "L", ls),
     r |-> MkTable(rshape[1], rshape[2], "R", rs)]

\* every key dtype and every ascending key, on the table pairs of KeyShapes
KeyCalls ==
    {Call(x[1], KeySeries(x[2], KeyCodes(x[4], x[2])), KeySeries(x[3], KeyCodes(x[5], x[2])),
          <<x[6][1], FALSE>>, <<x[6][2], x[6][3]>>) :
        x \in BOOLEAN \X KeyTypes("L") \X KeyTypes("R")
              \X AscSeqs(0..MaxCode, MaxRows) \X AscSeqs(0..MaxCode, MaxRows) \X KeyShapes}

\* every pair of table shapes, on integer keys of every pair of lengths
TableCalls ==
    {Call(x[1], PlainKey(x[2]), PlainKey(x[3]), x[4], x[5]) :
        x \in BOOLEAN \X (0..MaxRows) \X (0..MaxRows) \X LeftShapes \X RightShapes}

Calls == KeyCalls \cup TableCalls

NotCalledYet == Outcome("NotCalled", NoFrame, "", NoIndicator, <<>>, 0)

----------------------------------------------------------------------------
(* The specifications. *)

Init ==
    /\ \E c \in Calls :
          /\ check_schema = c.cs
          /\ left_s = c.ls
          /\ right_s = c.rs
          /\ left = c.l
          /\ right = c.r
    /\ result = NotCalledYet
    /\ a = <<>>
    /\ b = <<>>
    /\ out = NotCalled

\* one call of _merge_sorted_dfs(&left, &right, &left_s, &right_s, check_schema)
CallMergeSortedDfs ==
    /\ result.tag = "NotCalled"
    /\ result' \in Outcomes(merge_sorted_dfs(left, right, left_s, right_s, check_schema),
                            left, right)
    /\ UNCHANGED <<left, right, left_s, right_s, check_schema>>
    /\ UNCHANGED indVars

Next == CallMergeSortedDfs

Spec == Init /\ [][Next]_vars

InitInd ==
    /\ \E p \in (KeySeqs \X KeySeqs) \cup TestPairs : a = p[1] /\ b = p[2]
    /\ out = NotCalled
    /\ check_schema = FALSE
    /\ left_s = NoSeries
    /\ right_s = NoSeries
    /\ left = NoFrame
    /\ right = NoFrame
    /\ result = NotCalledYet

\* one call of get_merge_indicator(a.iter().copied(), b.iter().copied())
CallGetMergeIndicator ==
    /\ out.tag = "NotCalled"
    /\ out' = get_merge_indicator(a, b)
    /\ UNCHANGED <<a, b>>
    /\ UNCHANGED dfsVars

NextInd == CallGetMergeIndicator

SpecInd == InitInd /\ [][NextInd]_vars

----------------------------------------------------------------------------
(* Properties of get_merge_indicator, checked under SpecInd. *)

IndDone == out.tag # "NotCalled"

RECURSIVE DecodeFrom(_, _, _, _, _, _)
\* decoding an indicator: each TRUE takes the next unconsumed element of sa,
\* each FALSE the next unconsumed element of sb
DecodeFrom(sa, sb, ind, k, i, j) ==
    IF k > Len(ind) THEN <<>>
    ELSE IF ind[k]
    THEN <<sa[i]>> \o DecodeFrom(sa, sb, ind, k + 1, i + 1, j)
    ELSE <<sb[j]>> \o DecodeFrom(sa, sb, ind, k + 1, i, j + 1)

Decode(sa, sb, ind) == DecodeFrom(sa, sb, ind, 1, 1, 1)

RECURSIVE TwoPointerFrom(_, _, _, _)
\* the left-biased two-pointer merge, position by position: TRUE iff sa has an
\* unconsumed element and either sb is exhausted or sa's head <= sb's head
TwoPointerFrom(sa, sb, i, j) ==
    IF i > Len(sa) /\ j > Len(sb) THEN <<>>
    ELSE LET takeA == i <= Len(sa) /\ (j > Len(sb) \/ sa[i] <= sb[j])
         IN  <<takeA>> \o TwoPointerFrom(sa, sb, IF takeA THEN i + 1 ELSE i,
                                         IF takeA THEN j ELSE j + 1)

TwoPointer(sa, sb) == TwoPointerFrom(sa, sb, 1, 1)

\* the position of the n-th entry equal to x
PosOfNth(ind, x, n) ==
    CHOOSE k \in 1..Len(ind) : ind[k] = x /\ Cardinality({m \in 1..k : ind[m] = x}) = n

Negation(ind) == [k \in 1..Len(ind) |-> ~ind[k]]

\* C1: for ascending a and b, empty ones included, the indicator has length
\* |a|+|b|, exactly |a| TRUE and |b| FALSE entries, and decodes to a
\* non-decreasing sequence.
C1_CountsAndOrder ==
    (IndDone /\ Ascending(a) /\ Ascending(b)) =>
        /\ out.tag = "Ok"
        /\ Len(out.val) = Len(a) + Len(b)
        /\ CountOf(out.val, TRUE) = Len(a)
        /\ CountOf(out.val, FALSE) = Len(b)
        /\ Ascending(Decode(a, b, out.val))

\* C2: for ascending non-empty a and b the indicator is that of the left-biased
\* two-pointer merge; on equal keys the TRUE taking a[i] precedes the FALSE
\* taking b[j]; the swapped call is not the negation (the test's two vectors).
C2_LeftBiasedTwoPointer ==
    (IndDone /\ Ascending(a) /\ Ascending(b) /\ a # <<>> /\ b # <<>>) =>
        /\ out = IndOk(TwoPointer(a, b))
        /\ \A i \in 1..Len(a) : \A j \in 1..Len(b) :
              a[i] = b[j] => PosOfNth(out.val, TRUE, i) < PosOfNth(out.val, FALSE, j)
        /\ (a = TestA1 /\ b = TestB1) =>
              out.val = <<TRUE, TRUE, FALSE, FALSE, TRUE, FALSE, FALSE, TRUE, TRUE, FALSE>>
        /\ (a = TestB1 /\ b = TestA1) =>
              /\ out.val = <<FALSE, TRUE, FALSE, TRUE, TRUE, FALSE, TRUE, FALSE, FALSE, TRUE>>
              /\ out.val # Negation(get_merge_indicator(b, a).val)

\* a call on the test's vectors, which share the keys 2 and 4
C2_Witness ==
    /\ IndDone
    /\ a = TestA1
    /\ b = TestB1
    /\ out.val = <<TRUE, TRUE, FALSE, FALSE, TRUE, FALSE, FALSE, TRUE, TRUE, FALSE>>

\* C3: with an empty left side the indicator is |b| entries, all FALSE; with an
\* empty right side it is |a| entries, all TRUE.
C3_EmptySide ==
    IndDone =>
        /\ a = <<>> => out = IndOk(Repeat(FALSE, Len(b)))
        /\ b = <<>> => out = IndOk(Repeat(TRUE, Len(a)))

----------------------------------------------------------------------------
(* Properties of _merge_sorted_dfs, checked under Spec. *)

Done == result.tag # "NotCalled"

SchemaCheckFails == check_schema /\ ~schema_equal(left, right)

KeyDtypeFails == ~DtypeEq(left_s.dtype, right_s.dtype)

KeyCategoriesFail ==
    is_categorical(left_s.dtype) /\ ~same_src(left_s.dtype.rev, right_s.dtype.rev)

ValidationPasses == ~SchemaCheckFails /\ ~KeyDtypeFails /\ ~KeyCategoriesFail

BothNonEmpty == ~is_empty(left_s) /\ ~is_empty(right_s)

\* the column positions both tables have
Pairs == 1..Min(Len(left.columns), Len(right.columns))

LDtype(i) == left.columns[i].dtype

RDtype(i) == right.columns[i].dtype

BothCategorical(i) == is_categorical(LDtype(i)) /\ is_categorical(RDtype(i))

SameKind(i, kind) == LDtype(i).rev.kind = kind /\ RDtype(i).rev.kind = kind

SameId(i) == LDtype(i).rev.id = RDtype(i).rev.id

\* C5: once the checks have passed, an empty right key returns the left table
\* unchanged and otherwise an empty left key returns the right table unchanged
\* (both empty: the left one); no indicator is computed, no column interleaved,
\* no dictionary created.
C5_ShortCircuit ==
    (Done /\ ValidationPasses) =>
        /\ is_empty(right_s) =>
              /\ result.tag = "Ok" /\ result.df = left
              /\ ~result.ind.computed /\ result.merged = 0 /\ result.created = <<>>
        /\ (~is_empty(right_s) /\ is_empty(left_s)) =>
              /\ result.tag = "Ok" /\ result.df = right
              /\ ~result.ind.computed /\ result.merged = 0 /\ result.created = <<>>

\* an empty right key beside a left table of two rows with a Global dictionary
C5_Witness ==
    /\ Done /\ ValidationPasses
    /\ is_empty(right_s) /\ SLen(left_s) = 2
    /\ \E i \in 1..Len(left.columns) : LDtype(i).rev.kind = "Global"
    /\ result.tag = "Ok" /\ result.df = left /\ result.created = <<>>

\* C9: when the upstream checks pass, no column pair presents a Local/Global
\* mix to check_and_union_revmaps: unreachable!() is never executed.
C9_MixedNeverPresented ==
    (Done /\ ValidationPasses) => ~(result.tag = "Panic" /\ result.err = "unreachable")

\* C10: the checks run in the order schema, key dtype, key dictionaries, before
\* the short-circuit and the merge; the first failing one is the error and then
\* nothing is returned, whether or not a key is empty.
C10_ValidationOrder ==
    Done =>
        /\ SchemaCheckFails => result = Failed(ErrSchema)
        /\ (~SchemaCheckFails /\ KeyDtypeFails) => result = Failed(ErrKeyDtype)
        /\ (~SchemaCheckFails /\ ~KeyDtypeFails /\ KeyCategoriesFail) =>
              result = Failed(ErrKeyCategories)
        /\ ValidationPasses => result.err \notin {ErrSchema, ErrKeyDtype, ErrKeyCategories}
        /\ ~ValidationPasses => (result.tag = "Err" /\ result.df = NoFrame)

\* a key dtype mismatch with an empty right key and no schema check
C10_Witness ==
    /\ Done /\ ~check_schema /\ KeyDtypeFails /\ KeyCategoriesFail
    /\ is_empty(right_s) /\ ~is_empty(left_s)
    /\ result = Failed(ErrKeyDtype)

\* the dtype the i-th merged column is to carry: the left dtype, for a pair of
\* Global categoricals with the union of the two dictionaries
ExpectedDtype(i) ==
    IF BothCategorical(i) /\ SameKind(i, "Global")
    THEN Categorical(GlobalRev(LDtype(i).rev.id, LDtype(i).rev.cats \cup RDtype(i).rev.cats),
                     LDtype(i).ord)
    ELSE LDtype(i)

\* C8 as stated: after an actual merge the table has one column per left
\* column, each with the left column's name and logical dtype.
C8_OneColumnPerLeftColumn ==
    (Done /\ BothNonEmpty /\ result.tag = "Ok") =>
        /\ Len(result.df.columns) = Len(left.columns)
        /\ \A i \in 1..Len(left.columns) :
              /\ result.df.columns[i].name = left.columns[i].name
              /\ result.df.columns[i].dtype = ExpectedDtype(i)

\* C8 amended: one column per position both tables have (all of the left
\* table's when the right table has as many), each with the left column's name
\* and logical dtype.
C8_OneColumnPerPair ==
    (Done /\ BothNonEmpty /\ result.tag = "Ok") =>
        /\ Len(result.df.columns) = Min(Len(left.columns), Len(right.columns))
        /\ Len(right.columns) >= Len(left.columns) =>
              Len(result.df.columns) = Len(left.columns)
        /\ \A i \in Pairs :
              /\ result.df.columns[i].name = left.columns[i].name
              /\ result.df.columns[i].dtype = ExpectedDtype(i)

\* a merge of a two-column left table with a one-column right table whose
\* column has another name and another dictionary
C8_Witness ==
    /\ Done /\ BothNonEmpty /\ result.tag = "Ok"
    /\ Len(left.columns) = 2 /\ Len(right.columns) = 1
    /\ right.columns[1].name # left.columns[1].name
    /\ Len(result.df.columns) = 1
    /\ result.df.columns[1].name = left.columns[1].name
    /\ result.df.columns[1].dtype.rev \notin {LDtype(1).rev, RDtype(1).rev}

\* the i-th column pair was handed to merge_series by the call
PairMerged(i) == result.ind.computed /\ i <= result.merged

\* the i-th column pair is where the call failed
FailedAt(i) == result.tag # "Ok" /\ result.ind.computed /\ result.merged = i

RECURSIVE UnionsUpTo(_)
\* the unions of the pairs of same-cache Global categoricals among the first n
\* column pairs, in column order
UnionsUpTo(n) ==
    IF n = 0 THEN <<>>
    ELSE IF BothCategorical(n) /\ SameKind(n, "Global") /\ SameId(n)
    THEN Append(UnionsUpTo(n - 1), ExpectedDtype(n).rev)
    ELSE UnionsUpTo(n - 1)

C6_After ==
    Done =>
        /\ \A i \in Pairs : (PairMerged(i) /\ BothCategorical(i)) =>
              /\ ((SameKind(i, "Local") \/ SameKind(i, "Global")) /\ ~SameId(i)) =>
                    /\ FailedAt(i)
                    /\ result = Outcome("Err", NoFrame, ErrIncompatible, result.ind,
                                        UnionsUpTo(i - 1), i)
              /\ ((SameKind(i, "Local") \/ SameKind(i, "Global")) /\ SameId(i)) =>
                    ~FailedAt(i)
              /\ (SameKind(i, "Local") /\ SameId(i) /\ result.tag = "Ok") =>
                    /\ result.df.columns[i].dtype = LDtype(i)
                    /\ result.df.columns[i].dtype.rev = LDtype(i).rev
              /\ (SameKind(i, "Global") /\ SameId(i) /\ result.tag = "Ok") =>
                    /\ result.df.columns[i].dtype.rev.kind = "Global"
                    /\ result.df.columns[i].dtype.rev.id = LDtype(i).rev.id
                    /\ result.df.columns[i].dtype.rev.cats
                          = LDtype(i).rev.cats \cup RDtype(i).rev.cats
        /\ (result.tag = "Ok" /\ result.ind.computed) =>
              result.created = UnionsUpTo(Len(result.df.columns))

RECURSIVE HasStructNull(_)
\* a struct series, or a struct field of it at any depth, has an outer null
HasStructNull(s) ==
    /\ s.dtype.kind = "Struct"
    /\ \/ null_count(s) > 0
       \/ \E f \in 1..Len(s.fields) : HasStructNull(s.fields[f])

RECURSIVE PairHasStructNull(_, _)
\* a pair of struct series, or a pair of their fields at any depth, where the
\* left or the right one has an outer null
PairHasStructNull(l, r) ==
    /\ l.dtype.kind = "Struct" /\ r.dtype.kind = "Struct"
    /\ \/ null_count(l) + null_count(r) > 0
       \/ \E f \in 1..Min(Len(l.fields), Len(r.fields)) :
             PairHasStructNull(l.fields[f], r.fields[f])

RECURSIVE NullFreePair(_, _)
\* a pair of series of one dtype in which no struct has an outer null
NullFreePair(l, r) ==
    /\ DtypeEq(l.dtype, r.dtype)
    /\ ~HasStructNull(l) /\ ~HasStructNull(r)

RECURSIVE StructNullComesFirst(_, _)
\* within a pair of struct series, the first thing to fail is a check on outer nulls
StructNullComesFirst(l, r) ==
    /\ l.dtype.kind = "Struct" /\ r.dtype.kind = "Struct"
    /\ \/ null_count(l) + null_count(r) > 0
       \/ \E f \in 1..Min(Len(l.fields), Len(r.fields)) :
             /\ \A g \in 1..(f - 1) : NullFreePair(l.fields[g], r.fields[g])
             /\ StructNullComesFirst(l.fields[f], r.fields[f])

\* the i-th column pair merges without error
CleanPair(i) ==
    /\ NullFreePair(left.columns[i], right.columns[i])
    /\ BothCategorical(i) => same_src(LDtype(i).rev, RDtype(i).rev)

\* C7 as stated: a struct column of either table, at top level or nested, with
\* an outer null makes every call fail with the unsupported-operation error.
C7_StructNullAlwaysRejected ==
    (Done /\ \/ \E i \in 1..Len(left.columns) : HasStructNull(left.columns[i])
             \/ \E i \in 1..Len(right.columns) : HasStructNull(right.columns[i])) =>
        (result.tag = "Err" /\ result.err = ErrStructNulls)

\* C7 amended: when the checks pass and both keys are non-empty, a struct
\* column pair (a position both tables have, struct on both sides, at top level
\* or nested) with an outer null on either side means no table is returned, and
\* the error is the unsupported-operation one when nothing before that pair fails.
C7_StructNullRejectedInMerge ==
    (Done /\ ValidationPasses /\ BothNonEmpty) =>
        \A i \in Pairs :
            /\ PairHasStructNull(left.columns[i], right.columns[i]) =>
                  (result.tag # "Ok" /\ result.df = NoFrame)
            /\ (/\ StructNullComesFirst(left.columns[i], right.columns[i])
                /\ \A j \in 1..(i - 1) : CleanPair(j)) =>
                  (result.tag = "Err" /\ result.err = ErrStructNulls /\ result.merged = i)

\* a merge rejected for an outer null of a nested struct field of the right
\* table's second column
C7_Witness ==
    /\ Done /\ ValidationPasses /\ BothNonEmpty
    /\ \E i \in Pairs :
          /\ ~HasStructNull(left.columns[i])
          /\ null_count(right.columns[i]) = 0
          /\ HasStructNull(right.columns[i])
          /\ result.merged = i
    /\ result.tag = "Err" /\ result.err = ErrStructNulls

\* the rows of the output in order, as <<side, row>>, for an indicator
RECURSIVE OrderFrom(_, _, _, _)
OrderFrom(ind, k, i, j) ==
    IF k > Len(ind) THEN <<>>
    ELSE IF ind[k] THEN <<<<"L", i>>>> \o OrderFrom(ind, k + 1, i + 1, j)
    ELSE <<<<"R", j>>>> \o OrderFrom(ind, k + 1, i, j + 1)

LeftKeys == KeyView(left_s, left_s)

RightKeys == KeyView(left_s, right_s)

\* the row order of the stable left-biased merge of the two key sequences
StableOrder == OrderFrom(TwoPointer(LeftKeys, RightKeys), 1, 1, 1)

KeyOf(row) == IF row[1] = "L" THEN LeftKeys[row[2]] ELSE RightKeys[row[2]]

RECURSIVE RowOf(_, _)
\* row i of a series: its value, its null marker, and the same of its fields
RowOf(s, i) ==
    [v |-> IF s.vals = <<>> THEN -1 ELSE s.vals[i],
     ok |-> s.valid[i],
     fs |-> [f \in 1..Len(s.fields) |-> RowOf(s.fields[f], i)]]

SourceColumn(row, c) == IF row[1] = "L" THEN left.columns[c] ELSE right.columns[c]

\* the tables have pairwise identical column dtypes, the keys are ascending,
\* non-empty and as long as their tables, and the checks on the keys pass
C4_Pre ==
    /\ Done /\ ValidationPasses /\ BothNonEmpty
    /\ Len(left.columns) = Len(right.columns)
    /\ \A i \in Pairs : DtypeEq(LDtype(i), RDtype(i))
    /\ Ascending(LeftKeys) /\ Ascending(RightKeys)
    /\ SLen(left_s) = left.height /\ SLen(right_s) = right.height

\* the table returned is the stable left-biased merge, row by whole row
C4_RowsMerged ==
    LET df == result.df
        order == StableOrder
        n == left.height + right.height
    IN  /\ df.height = n
        /\ Len(order) = n
        /\ Len(df.columns) = Len(left.columns)
        /\ \A c \in 1..Len(df.columns) : SLen(df.columns[c]) = n
        \* output row k is, in every column, the input row order[k]
        /\ \A c \in 1..Len(df.columns) : \A k \in 1..n :
              RowOf(df.columns[c], k) = RowOf(SourceColumn(order[k], c), order[k][2])
        \* every input row once, each input's rows in their order
        /\ \A i \in 1..left.height : Cardinality({k \in 1..n : order[k] = <<"L", i>>}) = 1
        /\ \A j \in 1..right.height : Cardinality({k \in 1..n : order[k] = <<"R", j>>}) = 1
        /\ \A k1, k2 \in 1..n :
              (k1 < k2 /\ order[k1][1] = order[k2][1]) => order[k1][2] < order[k2][2]
        \* keys non-decreasing, left rows before right rows on equal keys
        /\ \A k1, k2 \in 1..n : k1 < k2 =>
              /\ KeyOf(order[k1]) <= KeyOf(order[k2])
              /\ KeyOf(order[k1]) = KeyOf(order[k2]) =>
                    ~(order[k1][1] = "R" /\ order[k2][1] = "L")

====
